---- MODULE Spec2Model ----
(***************************************************************************)
(* Model of the thread-local reference-counted box Cc<T> / Weak<T> of      *)
(* src/src/lib.rs: the CcBox blocks with their strong and weak counters,   *)
(* the handles that refer to them, and the operations of the API.          *)
(*                                                                         *)
(* A payload is a data word plus the handles it owns (in an interior-      *)
(* mutable cell, as in the module documentation and in                     *)
(* tests::weak_self_cyclic).  Handles are counted per owner: the handles   *)
(* the program holds outside any payload (ccStack, wkStack) and the        *)
(* handles owned by the payload of a block (ccIn, wkIn).  A Cc drop whose  *)
(* dec_strong reaches 0 runs the payload destructor, which drops the       *)
(* handles the payload owns one by one; the drops in progress are the      *)
(* frames of `stack`.                                                      *)
(***************************************************************************)
EXTENDS Integers, Sequences, FiniteSets, TLC

\* ---------------------------------------------------------------- bounds
\* blocks ever allocated
MaxBlocks == 2
\* handles (Cc and Weak) live at one time, over all blocks
MaxHandles == 3
\* handles owned by payloads, over all blocks, beyond which the program
\* moves no further handle into a payload
MaxHeld == 1
\* largest data word
MaxVal == 1
\* execution contexts that share handles (SpecRace only)
MaxContexts == 2

Blocks == 1..MaxBlocks
Vals == 0..MaxVal
Contexts == 1..MaxContexts

VARIABLES
    alloc,      \* block -> "unalloc" | "alloc" | "freed"   (the heap)
    strong,     \* block -> CcBox.strong
    weak,       \* block -> CcBox.weak
    data,       \* block -> CcBox.value, its data word (0 once the value is gone)
    pstate,     \* block -> "none" | "live" | "dropping" | "dropped" | "moved"
    ccStack,    \* block -> number of Cc handles to it held outside payloads
    wkStack,    \* block -> number of Weak handles to it held outside payloads
    ccIn,       \* owner block -> target block -> Cc handles owned by the payload
    wkIn,       \* owner block -> target block -> Weak handles owned by the payload
    stack,      \* the calls in progress, innermost first
    dtorRuns,   \* block -> number of times the payload destructor was started
    deallocs,   \* block -> number of times deallocate() was called on it
    uaf,        \* a counter of a deallocated block was read or written
    last        \* the operation performed by the last step and its result

vars == <<alloc, strong, weak, data, pstate, ccStack, wkStack, ccIn, wkIn,
          stack, dtorRuns, deallocs, uaf, last>>

heap == <<alloc, deallocs>>
counters == <<strong, weak>>
handles == <<ccStack, wkStack, ccIn, wkIn>>
payload == <<data, pstate, dtorRuns>>

Zero == [b \in Blocks |-> 0]

\* f[1] + .. + f[n]
RECURSIVE SumTo(_, _)
SumTo(f, n) == IF n = 0 THEN 0 ELSE f[n] + SumTo(f, n - 1)


\* Live Cc handles to block b: held by the program or owned by a payload.
LiveCc(b) == ccStack[b] + SumTo([a \in Blocks |-> ccIn[a][b]], MaxBlocks)

\* Live Weak handles to block b (the implicit weak is not a handle).
LiveWeak(b) == wkStack[b] + SumTo([a \in Blocks |-> wkIn[a][b]], MaxBlocks)

\* Handles owned by the payload of block a.
Held(a) == SumTo(ccIn[a], MaxBlocks) + SumTo(wkIn[a], MaxBlocks)

\* Live handles of each kind, over all blocks.
TotalHandles == SumTo([b \in Blocks |-> LiveCc(b) + LiveWeak(b)], MaxBlocks)
TotalHeld == SumTo([a \in Blocks |-> Held(a)], MaxBlocks)

Idle == stack = <<>>

\* The record of a step: operation, block of the handle it is applied to,
\* result, value returned by try_unwrap, block of the resulting handle (for
\* a step inside a payload destructor: the block being destroyed), and
\* whether the payload destroyed by the drop that returns owned a Weak to
\* its own block.
Op(o, b, r, v, t) ==
    [op |-> o, blk |-> b, res |-> r, val |-> v, to |-> t, cyc |-> FALSE]

\* ------------------------------------------------- CcBox and CcBoxPtr
NewStrong == 1
\* variant: no implicit weak
NewWeak_none == 0
NewWeak == 1

\* variant: the increment is lost
inc_strong_lost(s) == s
inc_strong(s) == s + 1
\* usize subtraction; a result of -1 stands for the out-of-contract
\* decrement of a zero counter.
dec_strong(s) == s - 1
\* variant: the increment is lost
inc_weak_lost(w) == w
inc_weak(w) == w + 1
dec_weak(w) == w - 1

weak_count(b) == weak[b] - 1
strong_count(b) == strong[b]

\* variants: never unique; one of the two counters is not consulted
is_unique_never(b) == FALSE
is_unique_noweak(b) == strong_count(b) = 1
is_unique_nostrong(b) == weak_count(b) = 0
is_unique(b) == weak_count(b) = 0 /\ strong_count(b) = 1

\* Cc::drop, `if self.strong() == 0` after dec_strong.
\* variant: off by one
DropDestroys_early(s) == s <= 1
DropDestroys(s) == s = 0

\* Cc::drop, `if self.weak() == 0` after the implicit weak is released.
\* variants: the block is never deallocated; the test is left out
CcDropFrees_never(w) == FALSE
CcDropFrees_always(w) == TRUE
CcDropFrees(w) == w = 0

\* Weak::drop, `if self.weak() == 0` after dec_weak.
\* variant: off by one
WeakDropFrees_early(w) == w <= 1
WeakDropFrees(w) == w = 0

\* Weak::upgrade, `if self.strong() == 0`.
\* variants: the test is left out; off by one
UpgradeFails_never(s) == FALSE
UpgradeFails_one(s) == s <= 1
UpgradeFails(s) == s = 0

\* inner(): the counters are read and written through the handle's pointer.
Touch(S) == uaf' = (uaf \/ \E b \in S : alloc[b] # "alloc")

\* Box::new picks a block that was never handed out.
HasFresh == \E b \in Blocks : alloc[b] = "unalloc"
FreshBlock == CHOOSE b \in Blocks :
                 alloc[b] = "unalloc" /\ \A c \in Blocks : c < b => alloc[c] # "unalloc"

\* ---------------------------------------------------------------- Init
Init ==
    /\ alloc = [b \in Blocks |-> "unalloc"]
    /\ strong = Zero
    /\ weak = Zero
    /\ data = Zero
    /\ pstate = [b \in Blocks |-> "none"]
    /\ ccStack = Zero
    /\ wkStack = Zero
    /\ ccIn = [a \in Blocks |-> Zero]
    /\ wkIn = [a \in Blocks |-> Zero]
    /\ stack = <<>>
    /\ dtorRuns = Zero
    /\ deallocs = Zero
    /\ uaf = FALSE
    /\ last = Op("init", 0, "", 0, 0)

\* ------------------------------------------------------- Cc operations
\* Cc::new(value)
New(v) ==
    /\ Idle /\ HasFresh /\ TotalHandles < MaxHandles
    /\ LET n == FreshBlock IN
        /\ alloc' = [alloc EXCEPT ![n] = "alloc"]
        /\ strong' = [strong EXCEPT ![n] = NewStrong]
        /\ weak' = [weak EXCEPT ![n] = NewWeak]
        /\ data' = [data EXCEPT ![n] = v]
        /\ pstate' = [pstate EXCEPT ![n] = "live"]
        /\ ccStack' = [ccStack EXCEPT ![n] = 1]
        /\ last' = Op("new", n, "", 0, n)
    /\ UNCHANGED <<wkStack, ccIn, wkIn, stack, dtorRuns, deallocs, uaf>>

\* Cc::clone(&self)
Clone(b) ==
    /\ Idle /\ ccStack[b] > 0 /\ TotalHandles < MaxHandles
    /\ strong' = [strong EXCEPT ![b] = inc_strong(@)]
    /\ ccStack' = [ccStack EXCEPT ![b] = @ + 1]
    /\ Touch({b})
    /\ last' = Op("clone", b, "", 0, b)
    /\ UNCHANGED <<heap, weak, payload, wkStack, ccIn, wkIn, stack>>

\* Cc::downgrade(&self)
Downgrade(b) ==
    /\ Idle /\ ccStack[b] > 0 /\ TotalHandles < MaxHandles
    /\ weak' = [weak EXCEPT ![b] = inc_weak(@)]
    /\ wkStack' = [wkStack EXCEPT ![b] = @ + 1]
    /\ Touch({b})
    /\ last' = Op("downgrade", b, "", 0, b)
    /\ UNCHANGED <<heap, strong, payload, ccStack, ccIn, wkIn, stack>>

\* Weak::clone(&self)
WeakClone(b) ==
    /\ Idle /\ wkStack[b] > 0 /\ TotalHandles < MaxHandles
    /\ weak' = [weak EXCEPT ![b] = inc_weak(@)]
    /\ wkStack' = [wkStack EXCEPT ![b] = @ + 1]
    /\ Touch({b})
    /\ last' = Op("weak_clone", b, "", 0, b)
    /\ UNCHANGED <<heap, strong, payload, ccStack, ccIn, wkIn, stack>>

\* Weak::upgrade(&self)
Upgrade(b) ==
    /\ Idle /\ wkStack[b] > 0
    /\ Touch({b})
    /\ IF UpgradeFails(strong[b])
       THEN /\ last' = Op("upgrade", b, "None", 0, 0)
            /\ UNCHANGED <<strong, ccStack>>
       ELSE /\ TotalHandles < MaxHandles
            /\ strong' = [strong EXCEPT ![b] = inc_strong(@)]
            /\ ccStack' = [ccStack EXCEPT ![b] = @ + 1]
            /\ last' = Op("upgrade", b, "Some", 0, b)
    /\ UNCHANGED <<heap, weak, payload, wkStack, ccIn, wkIn, stack>>

\* deallocate(ptr, ..)
Freed(b) == [alloc EXCEPT ![b] = "freed"]
FreedCount(b) == [deallocs EXCEPT ![b] = @ + 1]

\* A call in progress: the block, the point reached, the value the caller
\* of make_unique will write, and whether the payload being destroyed owned
\* a Weak to its own block when its destructor started.
Frame(b, p, v, c) == [blk |-> b, pc |-> p, val |-> v, cyc |-> c]

\* <Cc as Drop>::drop on a handle to block b, up to the start of the payload
\* destructor: dec_strong, then `ptr::read(&**self)` when strong() == 0.
\* s0, p0: the counters and payload states the drop starts from; rest: the
\* calls that continue once this drop has returned.
CcDrop(b, s0, p0, rest) ==
    LET s == dec_strong(s0[b]) IN
    /\ strong' = [s0 EXCEPT ![b] = s]
    /\ IF DropDestroys(s)
       THEN /\ pstate' = [p0 EXCEPT ![b] = "dropping"]
            /\ dtorRuns' = [dtorRuns EXCEPT ![b] = @ + 1]
            /\ stack' = <<Frame(b, "dtor", 0, wkIn[b][b] > 0)>> \o rest
       ELSE /\ pstate' = p0
            /\ dtorRuns' = dtorRuns
            /\ stack' = rest

\* drop(cc) by the program
DropCc(b) ==
    /\ Idle /\ ccStack[b] > 0
    /\ ccStack' = [ccStack EXCEPT ![b] = @ - 1]
    /\ CcDrop(b, strong, pstate, <<>>)
    /\ Touch({b})
    /\ last' = Op("drop", b, IF DropDestroys(dec_strong(strong[b])) THEN "destroy" ELSE "", 0, 0)
    /\ UNCHANGED <<heap, weak, data, wkStack, ccIn, wkIn>>

\* <Weak as Drop>::drop on a handle to block b: the new counter and heap.
WeakDrop(b) ==
    LET w == dec_weak(weak[b]) IN
    /\ weak' = [weak EXCEPT ![b] = w]
    /\ IF WeakDropFrees(w)
       THEN alloc' = Freed(b) /\ deallocs' = FreedCount(b)
       ELSE UNCHANGED heap

\* drop(weak) by the program
DropWeak(b) ==
    /\ Idle /\ wkStack[b] > 0
    /\ wkStack' = [wkStack EXCEPT ![b] = @ - 1]
    /\ WeakDrop(b)
    /\ Touch({b})
    /\ last' = Op("weak_drop", b, IF WeakDropFrees(dec_weak(weak[b])) THEN "freed" ELSE "", 0, 0)
    /\ UNCHANGED <<strong, payload, ccStack, ccIn, wkIn, stack>>

\* try_unwrap(rc): on success the value, with the handles it owns, moves to
\* the caller, the block is deallocated and the handle is forgotten.
TryUnwrap(b) ==
    /\ Idle /\ ccStack[b] > 0
    /\ Touch({b})
    /\ IF is_unique(b)
       THEN /\ pstate' = [pstate EXCEPT ![b] = "moved"]
            /\ data' = [data EXCEPT ![b] = 0]
            /\ alloc' = Freed(b) /\ deallocs' = FreedCount(b)
            /\ ccStack' = [t \in Blocks |->
                             IF t = b THEN ccStack[b] - 1 ELSE ccStack[t] + ccIn[b][t]]
            /\ wkStack' = [t \in Blocks |-> wkStack[t] + wkIn[b][t]]
            /\ ccIn' = [ccIn EXCEPT ![b] = Zero]
            /\ wkIn' = [wkIn EXCEPT ![b] = Zero]
            /\ last' = Op("try_unwrap", b, "Ok", data[b], 0)
       ELSE /\ last' = Op("try_unwrap", b, "Err", 0, b)
            /\ UNCHANGED <<heap, pstate, data, handles>>
    /\ UNCHANGED <<counters, dtorRuns, stack>>

\* get_mut(rc), and the caller's write of v through the returned reference
GetMut(b, v) ==
    /\ Idle /\ ccStack[b] > 0
    /\ Touch({b})
    /\ IF is_unique(b)
       THEN /\ data' = [data EXCEPT ![b] = v]
            /\ last' = Op("get_mut", b, "Some", 0, b)
       ELSE /\ data' = data
            /\ last' = Op("get_mut", b, "None", 0, b)
    /\ UNCHANGED <<heap, counters, pstate, dtorRuns, handles, stack>>

\* Cc::make_unique(&mut self): the payload is cloned (with the handles it
\* owns) into a new block and the assignment to *self drops the old handle.
\* The caller's write of v through the returned reference is the frame
\* "mu_ret", which runs when that drop has returned.
MakeUnique(b, v) ==
    /\ Idle /\ ccStack[b] > 0
    /\ Touch({b})
    /\ IF is_unique(b)
       THEN /\ stack' = <<Frame(b, "mu_ret", v, FALSE)>>
            /\ last' = Op("make_unique", b, "same", 0, b)
            /\ UNCHANGED <<heap, counters, payload, handles>>
       ELSE /\ HasFresh
            /\ TotalHandles + Held(b) <= MaxHandles
            /\ LET n == FreshBlock IN
                /\ alloc' = [alloc EXCEPT ![n] = "alloc"]
                /\ deallocs' = deallocs
                /\ data' = [data EXCEPT ![n] = data[b]]
                /\ weak' = [t \in Blocks |->
                              IF t = n THEN NewWeak ELSE weak[t] + wkIn[b][t]]
                /\ ccIn' = [ccIn EXCEPT ![n] = ccIn[b]]
                /\ wkIn' = [wkIn EXCEPT ![n] = wkIn[b]]
                /\ wkStack' = wkStack
                /\ ccStack' = [ccStack EXCEPT ![b] = @ - 1, ![n] = 1]
                /\ CcDrop(b,
                          [t \in Blocks |->
                              IF t = n THEN NewStrong ELSE strong[t] + ccIn[b][t]],
                          [pstate EXCEPT ![n] = "live"],
                          <<Frame(n, "mu_ret", v, FALSE)>>)
                /\ last' = Op("make_unique", b, "fresh", 0, n)

\* `*cc.make_unique() = v`: the write through the returned reference
MakeUniqueWrite ==
    /\ stack # <<>> /\ Head(stack).pc = "mu_ret"
    /\ LET f == Head(stack) IN
        /\ data' = [data EXCEPT ![f.blk] = f.val]
        /\ last' = Op("mu_write", f.blk, "", 0, f.blk)
    /\ stack' = Tail(stack)
    /\ Touch({Head(stack).blk})
    /\ UNCHANGED <<heap, counters, pstate, dtorRuns, handles>>

\* `*x.borrow_mut() = v` through Deref: a write to an interior-mutable payload
SetCell(b, v) ==
    /\ Idle /\ ccStack[b] > 0 /\ data[b] # v
    /\ data' = [data EXCEPT ![b] = v]
    /\ Touch({b})
    /\ last' = Op("set", b, "", 0, b)
    /\ UNCHANGED <<heap, counters, pstate, dtorRuns, handles, stack>>

\* `*a.x.borrow_mut() = Some(w)`: a Weak to block b moves into the payload of a
StoreWeak(a, b) ==
    /\ Idle /\ ccStack[a] > 0 /\ wkStack[b] > 0 /\ TotalHeld < MaxHeld
    /\ wkStack' = [wkStack EXCEPT ![b] = @ - 1]
    /\ wkIn' = [wkIn EXCEPT ![a][b] = @ + 1]
    /\ Touch({a})
    /\ last' = Op("store_weak", b, "", 0, a)
    /\ UNCHANGED <<heap, counters, payload, ccStack, ccIn, stack>>

\* a Cc to block b moves into the payload of a (a strong reference from a to b)
StoreCc(a, b) ==
    /\ Idle /\ ccStack[a] > 0 /\ TotalHeld < MaxHeld
    /\ ccStack[b] > (IF a = b THEN 1 ELSE 0)
    /\ ccStack' = [ccStack EXCEPT ![b] = @ - 1]
    /\ ccIn' = [ccIn EXCEPT ![a][b] = @ + 1]
    /\ Touch({a})
    /\ last' = Op("store_cc", b, "", 0, a)
    /\ UNCHANGED <<heap, counters, payload, wkStack, wkIn, stack>>

\* ------------------------------------------- inside <Cc as Drop>::drop
InDtor == stack # <<>> /\ Head(stack).pc = "dtor"
Owner == Head(stack).blk

\* the payload destructor drops a Weak the payload owns
DtorDropWeak(t) ==
    /\ InDtor /\ wkIn[Owner][t] > 0
    /\ wkIn' = [wkIn EXCEPT ![Owner][t] = @ - 1]
    /\ WeakDrop(t)
    /\ Touch({t})
    /\ last' = Op("dtor_weak_drop", t,
                  IF WeakDropFrees(dec_weak(weak[t])) THEN "freed" ELSE "", 0, Owner)
    /\ UNCHANGED <<strong, payload, ccStack, wkStack, ccIn, stack>>

\* the payload destructor drops a Cc the payload owns
DtorDropCc(t) ==
    /\ InDtor /\ ccIn[Owner][t] > 0
    /\ ccIn' = [ccIn EXCEPT ![Owner][t] = @ - 1]
    /\ CcDrop(t, strong, pstate, stack)
    /\ Touch({t})
    /\ last' = Op("dtor_drop", t,
                  IF DropDestroys(dec_strong(strong[t])) THEN "destroy" ELSE "", 0, Owner)
    /\ UNCHANGED <<heap, weak, data, ccStack, wkStack, wkIn>>

\* the payload destructor calls upgrade() on a Weak the payload owns and
\* hands the result, if any, to the program
DtorUpgrade(t) ==
    /\ InDtor /\ wkIn[Owner][t] > 0
    /\ Touch({t})
    /\ IF UpgradeFails(strong[t])
       THEN /\ last' = Op("dtor_upgrade", t, "None", 0, Owner)
            /\ UNCHANGED <<strong, ccStack>>
       ELSE /\ TotalHandles < MaxHandles
            /\ strong' = [strong EXCEPT ![t] = inc_strong(@)]
            /\ ccStack' = [ccStack EXCEPT ![t] = @ + 1]
            /\ last' = Op("dtor_upgrade", t, "Some", 0, Owner)
    /\ UNCHANGED <<heap, weak, payload, wkStack, ccIn, wkIn, stack>>

\* `ptr::read(&**self)` returns: the contained object is destroyed
DtorDone ==
    /\ InDtor /\ Held(Owner) = 0
    /\ pstate' = [pstate EXCEPT ![Owner] = "dropped"]
    /\ data' = [data EXCEPT ![Owner] = 0]
    /\ stack' = <<Frame(Owner, "dec_weak", 0, Head(stack).cyc)>> \o Tail(stack)
    /\ last' = Op("dtor_done", Owner, "", 0, 0)
    /\ UNCHANGED <<heap, counters, dtorRuns, handles, uaf>>

\* `self.dec_weak()` releases the implicit weak, then
\* `if self.weak() == 0 { deallocate(..) }`, and the drop returns
ReleaseImplicitWeak ==
    /\ stack # <<>> /\ Head(stack).pc = "dec_weak"
    /\ LET w == dec_weak(weak[Owner]) IN
        /\ weak' = [weak EXCEPT ![Owner] = w]
        /\ IF CcDropFrees(w)
           THEN /\ alloc' = Freed(Owner) /\ deallocs' = FreedCount(Owner)
                /\ last' = [Op("release_implicit", Owner, "freed", 0, 0)
                               EXCEPT !.cyc = Head(stack).cyc]
           ELSE /\ UNCHANGED heap
                /\ last' = [Op("release_implicit", Owner, "", 0, 0)
                               EXCEPT !.cyc = Head(stack).cyc]
    /\ stack' = Tail(stack)
    /\ Touch({Owner})
    /\ UNCHANGED <<strong, payload, handles>>

\* ---------------------------------------------------------------- Next
Next ==
    \/ \E v \in Vals : New(v)
    \/ \E b \in Blocks : Clone(b)
    \/ \E b \in Blocks : Downgrade(b)
    \/ \E b \in Blocks : WeakClone(b)
    \/ \E b \in Blocks : Upgrade(b)
    \/ \E b \in Blocks : DropCc(b)
    \/ \E b \in Blocks : DropWeak(b)
    \/ \E b \in Blocks : TryUnwrap(b)
    \/ \E b \in Blocks, v \in Vals : GetMut(b, v)
    \/ \E b \in Blocks, v \in Vals : MakeUnique(b, v)
    \/ MakeUniqueWrite
    \/ \E b \in Blocks, v \in Vals : SetCell(b, v)
    \/ \E a, b \in Blocks : StoreWeak(a, b)
    \/ \E a, b \in Blocks : StoreCc(a, b)
    \/ \E t \in Blocks : DtorDropWeak(t)
    \/ \E t \in Blocks : DtorDropCc(t)
    \/ \E t \in Blocks : DtorUpgrade(t)
    \/ DtorDone
    \/ ReleaseImplicitWeak

Spec == Init /\ [][Next]_vars

\* ------------------------------------------ unsynchronized contexts
\* The same blocks and counters with the handles shared by several
\* execution contexts, which the type forbids (the module documentation:
\* "marked as non-sendable") and the counters do not protect against:
\* inc_strong and dec_strong are `strong.set(self.strong() + 1)` and
\* `strong.set(self.strong() - 1)` on a Cell, a read followed by a write.
\* Here `stack` holds one call per context: the block, the counter update
\* whose read is done and whose write is pending, and the value read.
\* Payloads own no handles and no Weak handle is made. A context does not
\* start or finish an update on a block that has been deallocated, and
\* starts no clone when the counter has reached MaxHandles (lost decrements
\* would otherwise let it grow without bound).
NoCall == Frame(0, "idle", 0, FALSE)

\* Cc handles to block b owned by a drop whose dec_strong is not yet written.
InDrop(b) ==
    SumTo([t \in Contexts |->
              IF stack[t].pc = "dec_strong" /\ stack[t].blk = b THEN 1 ELSE 0],
          MaxContexts)

\* Cc::clone calls whose inc_strong is not yet written.
InClone ==
    SumTo([t \in Contexts |-> IF stack[t].pc = "inc_strong" THEN 1 ELSE 0],
          MaxContexts)

\* The block the contexts share.
Shared == 1

\* A context has made `Cc::new(value)`; its handle is within reach of all.
RaceInit ==
    /\ alloc = [b \in Blocks |-> IF b = Shared THEN "alloc" ELSE "unalloc"]
    /\ strong = [b \in Blocks |-> IF b = Shared THEN NewStrong ELSE 0]
    /\ weak = [b \in Blocks |-> IF b = Shared THEN NewWeak ELSE 0]
    /\ data = Zero
    /\ pstate = [b \in Blocks |-> IF b = Shared THEN "live" ELSE "none"]
    /\ ccStack = [b \in Blocks |-> IF b = Shared THEN 1 ELSE 0]
    /\ wkStack = Zero
    /\ ccIn = [a \in Blocks |-> Zero]
    /\ wkIn = [a \in Blocks |-> Zero]
    /\ stack = [t \in Contexts |-> NoCall]
    /\ dtorRuns = Zero
    /\ deallocs = Zero
    /\ uaf = FALSE
    /\ last = Op("new", Shared, "", 0, Shared)

\* Cc::clone in context t, inc_strong: `self.strong()` is read
IncStrongRead(t, b) ==
    /\ stack[t] = NoCall /\ ccStack[b] > 0 /\ alloc[b] = "alloc"
    /\ TotalHandles + InClone < MaxHandles /\ strong[b] < MaxHandles
    /\ stack' = [stack EXCEPT ![t] = Frame(b, "inc_strong", strong[b], FALSE)]
    /\ last' = Op("read", b, "", 0, b)
    /\ UNCHANGED <<heap, counters, payload, handles, uaf>>

\* Cc::clone in context t, inc_strong: `strong.set(..)` of the value read
\* plus one, and the clone returns the new handle
IncStrongWrite(t) ==
    LET b == stack[t].blk IN
    /\ stack[t].pc = "inc_strong" /\ alloc[b] = "alloc"
    /\ strong' = [strong EXCEPT ![b] = inc_strong(stack[t].val)]
    /\ ccStack' = [ccStack EXCEPT ![b] = @ + 1]
    /\ stack' = [stack EXCEPT ![t] = NoCall]
    /\ last' = Op("clone", b, IF stack[t].val # strong[b] THEN "lost" ELSE "", 0, b)
    /\ UNCHANGED <<heap, weak, payload, wkStack, ccIn, wkIn, uaf>>

\* drop(cc) in context t, dec_strong: `self.strong()` is read
DecStrongRead(t, b) ==
    /\ stack[t] = NoCall /\ ccStack[b] > 0 /\ alloc[b] = "alloc"
    /\ ccStack' = [ccStack EXCEPT ![b] = @ - 1]
    /\ stack' = [stack EXCEPT ![t] = Frame(b, "dec_strong", strong[b], FALSE)]
    /\ last' = Op("read", b, "", 0, b)
    /\ UNCHANGED <<heap, counters, payload, wkStack, ccIn, wkIn, uaf>>

\* drop(cc) in context t, dec_strong: `strong.set(..)` of the value read
\* minus one, and the rest of <Cc as Drop>::drop: at strong() == 0 the
\* payload is destroyed, the implicit weak released and, at weak() == 0,
\* the block deallocated
DecStrongWrite(t) ==
    LET b == stack[t].blk
        s == dec_strong(stack[t].val)
        w == dec_weak(weak[b])
    IN
    /\ stack[t].pc = "dec_strong" /\ alloc[b] = "alloc"
    /\ strong' = [strong EXCEPT ![b] = s]
    /\ stack' = [stack EXCEPT ![t] = NoCall]
    /\ IF DropDestroys(s)
       THEN /\ pstate' = [pstate EXCEPT ![b] = "dropped"]
            /\ dtorRuns' = [dtorRuns EXCEPT ![b] = @ + 1]
            /\ weak' = [weak EXCEPT ![b] = w]
            /\ IF CcDropFrees(w)
               THEN alloc' = Freed(b) /\ deallocs' = FreedCount(b)
               ELSE UNCHANGED heap
       ELSE UNCHANGED <<heap, weak, pstate, dtorRuns>>
    /\ last' = Op("drop", b, IF stack[t].val # strong[b] THEN "lost" ELSE "", 0, 0)
    /\ UNCHANGED <<data, handles, uaf>>

RaceNext ==
    \/ \E t \in Contexts, b \in Blocks : IncStrongRead(t, b)
    \/ \E t \in Contexts : IncStrongWrite(t)
    \/ \E t \in Contexts, b \in Blocks : DecStrongRead(t, b)
    \/ \E t \in Contexts : DecStrongWrite(t)

SpecRace == RaceInit /\ [][RaceNext]_vars

\* ================================================================ claims

CcDropOps == {"drop", "dtor_drop", "make_unique"}
UpgradeOps == {"upgrade", "dtor_upgrade"}
Allocated(b) == alloc[b] # "unalloc"

\* C1: whenever a Cc handle to a block is live, strong_count of that block
\* equals the number of live Cc handles to it.
C1_StrongCountIsLiveCc ==
    \A b \in Blocks : LiveCc(b) > 0 => alloc[b] = "alloc" /\ strong_count(b) = LiveCc(b)

C1_Witness ==
    /\ last.op = "drop" /\ last.res = ""
    /\ LiveCc(last.blk) = 1 /\ strong[last.blk] = 1 /\ LiveWeak(last.blk) = 1

\* C2: whenever a Cc handle to a block is live, weak_count of that block
\* equals the number of live Weak handles to it: the raw weak counter is
\* that number plus one, and weak >= 1 for as long as strong > 0.
C2_WeakCountIsLiveWeak ==
    \A b \in Blocks :
        /\ LiveCc(b) > 0 => weak_count(b) = LiveWeak(b) /\ weak[b] = LiveWeak(b) + 1
        /\ alloc[b] = "alloc" /\ strong[b] > 0 => weak[b] >= 1

C2_Witness ==
    /\ last.op = "weak_drop"
    /\ LiveCc(last.blk) > 0 /\ LiveWeak(last.blk) = 1 /\ weak[last.blk] = 2

\* C3: the payload destructor of a block starts at most once, and it starts
\* exactly in the steps of a Cc drop that take the strong counter from 1
\* to 0; no other operation starts it.
C3_DestroyedOnceAtLastDrop ==
    [][\A b \in Blocks :
          /\ dtorRuns'[b] # dtorRuns[b] =>
                /\ dtorRuns[b] = 0 /\ dtorRuns'[b] = 1
                /\ strong[b] = 1 /\ strong'[b] = 0
                /\ pstate[b] = "live" /\ pstate'[b] = "dropping"
                /\ last'.op \in CcDropOps /\ last'.blk = b
          /\ strong[b] > 0 /\ strong'[b] = 0 => dtorRuns'[b] = dtorRuns[b] + 1
       ]_vars

C3_Witness ==
    \E b \in Blocks : dtorRuns[b] = 1 /\ pstate[b] = "dropped" /\ alloc[b] = "alloc"

\* C4 as stated: every deallocation happens in a step that takes the weak
\* counter of the block from 1 to 0, try_unwrap included.
C4_DeallocOnlyAtWeakZero ==
    [][\A b \in Blocks :
          deallocs'[b] # deallocs[b] => weak[b] = 1 /\ weak'[b] = 0
       ]_vars

\* C4 as amended: a block is deallocated at most once; a deallocation
\* happens either in the step of a Cc drop or Weak drop that takes the weak
\* counter from 1 to 0, or in a successful try_unwrap, which leaves the
\* weak counter at 1.
C4_DeallocOnceAtWeakZeroOrUnwrap ==
    [][\A b \in Blocks :
          deallocs'[b] # deallocs[b] =>
             /\ deallocs[b] = 0 /\ deallocs'[b] = 1
             /\ alloc[b] = "alloc" /\ alloc'[b] = "freed"
             /\ \/ /\ last'.op \in {"weak_drop", "dtor_weak_drop", "release_implicit"}
                   /\ last'.blk = b
                   /\ weak[b] = 1 /\ weak'[b] = 0
                \/ /\ last' = Op("try_unwrap", b, "Ok", data[b], 0)
                   /\ weak[b] = 1 /\ weak'[b] = 1
       ]_vars

C4_Witness ==
    /\ \E b \in Blocks : alloc[b] = "freed" /\ weak[b] = 1 /\ pstate[b] = "moved"
    /\ \E b \in Blocks : alloc[b] = "freed" /\ weak[b] = 0 /\ pstate[b] = "dropped"

\* C5: for a block whose payload owns a Weak to its own block: the drop
\* of the last Cc starts the payload destructor once; the Weak drop inside
\* that destructor does not deallocate the block and leaves weak >= 1; the
\* block stays allocated until that Cc drop releases the implicit weak,
\* and it is then deallocated, once, unless another Weak handle is live.
C5_SelfCycleStep ==
    \A b \in Blocks :
        /\ last'.op \in CcDropOps /\ last'.blk = b /\ wkIn[b][b] > 0 /\ strong'[b] = 0 =>
              dtorRuns[b] = 0 /\ dtorRuns'[b] = 1 /\ alloc'[b] = "alloc"
        /\ last' = Op("dtor_weak_drop", b, last'.res, 0, b) /\ wkIn'[b] # wkIn[b] =>
              /\ last'.res = ""
              /\ weak'[b] >= 1 /\ alloc'[b] = "alloc" /\ deallocs'[b] = 0
        /\ last'.op = "release_implicit" /\ last'.blk = b /\ last'.cyc
           /\ stack' # stack =>
              /\ dtorRuns'[b] = 1 /\ pstate'[b] = "dropped"
              /\ weak'[b] = LiveWeak(b)
              /\ LiveWeak(b) = 0 =>
                    deallocs[b] = 0 /\ deallocs'[b] = 1 /\ alloc'[b] = "freed"

C5_SelfCycleState ==
    /\ \A b \in Blocks : dtorRuns[b] <= 1 /\ deallocs[b] <= 1
    /\ \A i \in 1..Len(stack) :
          stack[i].cyc => alloc[stack[i].blk] = "alloc" /\ weak[stack[i].blk] >= 1

C5_WeakSelfCycleReclaimed == [][C5_SelfCycleStep]_vars /\ []C5_SelfCycleState

C5_Witness ==
    /\ last.op = "release_implicit" /\ last.cyc /\ last.res = "freed"
    /\ alloc[last.blk] = "freed" /\ deallocs[last.blk] = 1 /\ dtorRuns[last.blk] = 1

\* C6: a deallocated block has no live Cc handle and no live Weak handle,
\* no drop in progress refers to it, and no operation has read or written
\* a counter of a deallocated block.
C6_NoHandleToFreedBlock ==
    /\ uaf = FALSE
    /\ \A b \in Blocks : alloc[b] = "freed" =>
          /\ LiveCc(b) = 0 /\ LiveWeak(b) = 0
          /\ \A i \in 1..Len(stack) : stack[i].blk # b

C6_Witness ==
    /\ last.op = "weak_drop" /\ last.res = "freed"
    /\ alloc[last.blk] = "freed" /\ LiveCc(last.blk) = 0 /\ LiveWeak(last.blk) = 0

\* C7: once the last Cc of a block is dropped while Weak handles remain,
\* the payload destructor has run and the block stays allocated as long as
\* a Weak handle remains; the drop of the last Weak handle by the program
\* deallocates it; every upgrade after the last Cc drop returns None.
C7_DeadState ==
    \A b \in Blocks :
        Allocated(b) /\ pstate[b] # "moved" /\ strong[b] = 0 /\ LiveWeak(b) > 0 =>
            /\ alloc[b] = "alloc" /\ deallocs[b] = 0
            /\ dtorRuns[b] = 1 /\ pstate[b] \in {"dropping", "dropped"}

C7_DeadStep ==
    \A b \in Blocks :
        /\ last'.op = "weak_drop" /\ last'.blk = b /\ wkStack'[b] # wkStack[b]
           /\ dtorRuns[b] = 1 /\ LiveWeak(b)' = 0 =>
               alloc[b] = "alloc" /\ alloc'[b] = "freed"
        /\ last'.op \in UpgradeOps /\ last'.blk = b /\ dtorRuns[b] >= 1 =>
               last'.res = "None" /\ strong'[b] = 0 /\ LiveCc(b)' = 0

C7_PayloadGoneBlockStays == []C7_DeadState /\ [][C7_DeadStep]_vars

C7_Witness ==
    /\ last.op = "upgrade" /\ last.res = "None"
    /\ alloc[last.blk] = "alloc" /\ pstate[last.blk] = "dropped" /\ Idle

\* C8: upgrade returns None iff the strong counter is 0 at the call;
\* otherwise it increments strong by one and returns a Cc to the same
\* block; it leaves the weak counters and the payloads unchanged.
C8_Upgrade ==
    [][last'.op \in UpgradeOps =>
          LET b == last'.blk IN
          /\ last'.res \in {"None", "Some"}
          /\ last'.res = "None" <=> strong[b] = 0
          /\ last'.res = "None" => strong' = strong /\ handles' = handles
          /\ last'.res = "Some" =>
                /\ strong' = [strong EXCEPT ![b] = strong[b] + 1]
                /\ ccStack' = [ccStack EXCEPT ![b] = ccStack[b] + 1]
                /\ last'.to = b \/ last'.op = "dtor_upgrade"
          /\ weak' = weak /\ payload' = payload /\ heap' = heap
       ]_vars

C8_Witness ==
    /\ last.op = "upgrade" /\ last.res = "Some"
    /\ strong[last.blk] = 2 /\ ccStack[last.blk] = 2 /\ wkStack[last.blk] >= 1

\* C9: for a live handle, is_unique holds exactly when the raw counters are
\* strong = 1 and weak = 1, which is exactly when the handle is the only
\* live handle of either kind to its block.
C9_IsUnique ==
    \A b \in Blocks : ccStack[b] > 0 =>
        /\ is_unique(b) <=> (strong[b] = 1 /\ weak[b] = 1)
        /\ is_unique(b) <=> (LiveCc(b) = 1 /\ LiveWeak(b) = 0)

C9_Witness ==
    /\ last.op = "weak_drop" /\ ccStack[last.blk] = 1 /\ is_unique(last.blk)

\* C10: try_unwrap on the only handle of a block returns the payload,
\* deallocates the block (once), leaves no handle to it, does not run the
\* payload destructor and does not change the counters or start a drop;
\* and it returns Ok only in that case.
C10_TryUnwrapUnique ==
    [][\A b \in Blocks : last'.op = "try_unwrap" /\ last'.blk = b =>
          /\ last'.res = "Ok" <=> (LiveCc(b) = 1 /\ LiveWeak(b) = 0)
          /\ last'.res = "Ok" =>
                /\ last'.val = data[b]
                /\ alloc[b] = "alloc" /\ alloc'[b] = "freed"
                /\ deallocs[b] = 0 /\ deallocs'[b] = 1
                /\ LiveCc(b)' = 0 /\ LiveWeak(b)' = 0
                /\ dtorRuns'[b] = 0 /\ pstate'[b] = "moved"
                /\ strong' = strong /\ weak' = weak
                /\ stack' = <<>>
       ]_vars

C10_Witness ==
    /\ last.op = "try_unwrap" /\ last.res = "Ok"
    /\ alloc[last.blk] = "freed" /\ deallocs[last.blk] = 1 /\ strong[last.blk] = 1

\* C11: try_unwrap on a handle that is not the only handle to its block
\* (another Cc or a Weak is live) returns Err with a handle to the same
\* block and changes nothing: counters, payloads, handles and heap.
C11_TryUnwrapShared ==
    [][\A b \in Blocks :
          /\ last'.op = "try_unwrap" /\ last'.blk = b
          /\ (LiveCc(b) > 1 \/ LiveWeak(b) > 0)
          => /\ last'.res = "Err" /\ last'.to = b
             /\ counters' = counters /\ payload' = payload
             /\ handles' = handles /\ heap' = heap /\ stack' = stack
       ]_vars

C11_Witness ==
    /\ last.op = "try_unwrap" /\ last.res = "Err"
    /\ LiveCc(last.blk) = 1 /\ LiveWeak(last.blk) = 1
    /\ alloc[last.blk] = "alloc" /\ pstate[last.blk] = "live"

\* C12: get_mut returns a reference iff is_unique holds at the call, which
\* is iff no other Cc and no Weak to the block is live; it returns None
\* otherwise; the counters are unchanged in both cases.
C12_GetMut ==
    [][\A b \in Blocks : last'.op = "get_mut" /\ last'.blk = b =>
          /\ last'.res \in {"Some", "None"}
          /\ last'.res = "Some" <=> is_unique(b)
          /\ last'.res = "Some" <=> (LiveCc(b) = 1 /\ LiveWeak(b) = 0)
          /\ last'.res = "None" => data' = data
          /\ counters' = counters /\ handles' = handles /\ heap' = heap
          /\ pstate' = pstate /\ dtorRuns' = dtorRuns
       ]_vars

C12_Witness ==
    /\ last.op = "get_mut" /\ last.res = "None"
    /\ strong[last.blk] = 1 /\ weak[last.blk] = 2 /\ ccStack[last.blk] = 1

\* C13 as stated: make_unique on a handle that shares its block with other
\* Cc handles leaves the old block with its payload and with exactly one
\* strong unit less; the write that follows goes to the new block only.
C13_OldBlockLosesOneStrong ==
    [][\A b \in Blocks :
          /\ last'.op = "make_unique" /\ last'.blk = b /\ LiveCc(b) > 1
          => /\ last'.res = "fresh" /\ last'.to # b
             /\ data'[b] = data[b] /\ pstate'[b] = "live"
             /\ strong'[b] = strong[b] - 1
       ]_vars

\* C13: copy-on-write. make_unique on a handle that shares its block with
\* other Cc handles moves the handle to a new block holding a copy of the
\* payload; the old block keeps its payload, and its strong counter loses
\* one unit for the handle that left and gains one for each Cc to the old
\* block that the copied payload owns. The write through the returned
\* reference changes the new block only, so every sibling clone made before
\* the call observes the old value and the handle, with each clone made of
\* it afterwards, observes the written value.
C13_CopyOnWrite ==
    [][/\ \A b \in Blocks :
            /\ last'.op = "make_unique" /\ last'.blk = b /\ LiveCc(b) > 1
            => /\ last'.res = "fresh" /\ last'.to # b
               /\ data'[b] = data[b] /\ pstate'[b] = "live"
               /\ dtorRuns' = dtorRuns /\ deallocs' = deallocs
               /\ alloc' = [alloc EXCEPT ![last'.to] = "alloc"]
               /\ strong'[b] = strong[b] - 1 + ccIn[b][b]
               /\ LiveCc(b)' = LiveCc(b) - 1 + ccIn[b][b]
               /\ alloc[last'.to] = "unalloc"
               /\ data'[last'.to] = data[b] /\ pstate'[last'.to] = "live"
               /\ strong'[last'.to] = 1 /\ ccStack'[last'.to] = 1
               /\ stack' = <<Frame(last'.to, "mu_ret", Head(stack').val, FALSE)>>
       /\ last'.op = "mu_write" /\ last.op = "make_unique" /\ last.res = "fresh"
            => /\ last'.blk = last.to /\ ccStack[last.to] = 1
               /\ data' = [data EXCEPT ![last.to] = Head(stack).val]
               /\ data'[last.blk] = data[last.blk]
               /\ counters' = counters /\ handles' = handles
       /\ \A b \in Blocks : last'.op = "clone" /\ last'.blk = b
            => data' = data /\ ccStack'[b] = ccStack[b] + 1
       ]_vars

C13_Witness ==
    /\ last.op = "make_unique" /\ last.res = "fresh"
    /\ ccStack[last.blk] = 1 /\ strong[last.blk] = 1 /\ pstate[last.blk] = "live"
    /\ ccStack[last.to] = 1 /\ data[last.to] = data[last.blk]
    /\ stack # <<>> /\ Head(stack).pc = "mu_ret" /\ Head(stack).val # data[last.blk]

\* C14: make_unique on the only Cc to a block that has a live Weak moves the
\* handle to a new block; the old block's strong counter reaches 0 and its
\* payload destructor starts; from then on upgrade on the old block returns
\* None, and the block written through the returned reference has no Weak.
C14_MakeUniqueWithWeak ==
    [][/\ \A b \in Blocks :
            /\ last'.op = "make_unique" /\ last'.blk = b
            /\ LiveCc(b) = 1 /\ LiveWeak(b) > 0
            => /\ last'.res = "fresh" /\ last'.to # b
               /\ alloc[last'.to] = "unalloc" /\ alloc'[last'.to] = "alloc"
               /\ ccStack'[last'.to] = 1 /\ weak'[last'.to] = 1
               /\ strong[b] = 1 /\ strong'[b] = 0 /\ LiveCc(b)' = 0
               /\ pstate'[b] = "dropping" /\ dtorRuns'[b] = dtorRuns[b] + 1
               /\ alloc'[b] = "alloc"
       /\ \A b \in Blocks :
            /\ last'.op \in UpgradeOps /\ last'.blk = b
            /\ pstate[b] \in {"dropping", "dropped"}
            => last'.res = "None" /\ strong'[b] = 0
       /\ last'.op = "mu_write"
            => /\ LiveWeak(last'.blk) = 0
               /\ pstate[last'.blk] = "live" /\ strong[last'.blk] = 1
       ]_vars

C14_Witness ==
    /\ last.op = "make_unique" /\ last.res = "fresh"
    /\ strong[last.blk] = 0 /\ pstate[last.blk] = "dropping"
    /\ wkStack[last.blk] = 1 /\ weak[last.blk] = 2
    /\ ccStack[last.to] = 1 /\ LiveWeak(last.to) = 0

\* Some call in progress is the drop of the last Cc of block b.
Dropping(b) ==
    \E i \in DOMAIN stack : stack[i].blk = b /\ stack[i].pc \in {"dtor", "dec_weak"}

\* C15: the drop of the last Cc of a block proceeds in a fixed order: the
\* step that takes strong to 0 starts the payload destructor and releases
\* nothing; while the destructor runs the block stays allocated, with the
\* implicit weak still counted, whatever the destructor drops; the implicit
\* weak is released only once the destructor has completed, and the block
\* is deallocated in that same release iff it takes weak to 0.
C15_DropOrder ==
    [][\A b \in Blocks :
          /\ dtorRuns'[b] # dtorRuns[b] =>
                /\ strong'[b] = 0 /\ pstate'[b] = "dropping"
                /\ weak'[b] >= weak[b] /\ alloc'[b] = "alloc" /\ deallocs' = deallocs
                /\ last'.op # "make_unique" => weak' = weak /\ heap' = heap
                /\ Head(stack') = Frame(b, "dtor", 0, wkIn[b][b] > 0)
          /\ pstate[b] = "dropping" =>
                /\ Dropping(b) /\ strong[b] = 0 /\ alloc[b] = "alloc"
                /\ weak[b] = LiveWeak(b) + 1
                /\ alloc'[b] = "alloc" /\ weak'[b] >= 1 /\ strong'[b] = 0
                /\ pstate'[b] # pstate[b] =>
                      /\ last'.op = "dtor_done" /\ last'.blk = b
                      /\ pstate'[b] = "dropped" /\ Held(b) = 0
                      /\ counters' = counters /\ heap' = heap
                      /\ Head(stack') = Frame(b, "dec_weak", 0, Head(stack).cyc)
          /\ last'.op = "release_implicit" /\ last'.blk = b =>
                /\ pstate[b] = "dropped" /\ pstate' = pstate
                /\ Head(stack).blk = b /\ Head(stack).pc = "dec_weak"
                /\ strong[b] = 0 /\ strong' = strong
                /\ weak[b] >= 1 /\ weak'[b] = weak[b] - 1
                /\ alloc[b] = "alloc"
                /\ alloc'[b] = "freed" <=> weak'[b] = 0
                /\ ~Dropping(b)'
          /\ Dropping(b) /\ alloc'[b] # alloc[b] =>
                last'.op = "release_implicit" /\ last'.blk = b
       ]_vars

C15_Witness ==
    /\ last.op = "dtor_weak_drop" /\ last.blk = last.to /\ last.res = ""
    /\ pstate[last.blk] = "dropping" /\ alloc[last.blk] = "alloc"
    /\ strong[last.blk] = 0 /\ weak[last.blk] = 1

\* The stage of a block's life.
Stage(b) ==
    CASE alloc[b] = "unalloc" -> 0
      [] alloc[b] = "alloc" /\ strong[b] > 0 -> 1
      [] alloc[b] = "alloc" /\ strong[b] <= 0 -> 2
      [] alloc[b] = "freed" -> 3

\* C16 as stated: a block moves only Live -> PayloadDestroyed -> Deallocated,
\* so it is deallocated only from PayloadDestroyed (strong = 0); strong never
\* becomes positive again and Deallocated is terminal.
C16_LifecycleThroughDestroyed ==
    [][\A b \in Blocks :
          /\ Stage(b)' >= Stage(b)
          /\ Stage(b)' # Stage(b) => Stage(b)' = Stage(b) + 1
          /\ Stage(b) = 2 => strong'[b] = 0
          /\ Stage(b) = 3 => Stage(b)' = 3
       ]_vars

\* C16: each block's lifecycle is monotone: Live (strong > 0), then
\* PayloadDestroyed (strong = 0, still allocated), then Deallocated; the one
\* step that goes from Live to Deallocated directly is a successful
\* try_unwrap, which moves the payload out. Once strong has reached 0 no
\* operation makes it positive again, and a deallocated block never changes.
C16_LifecycleMonotone ==
    [][\A b \in Blocks :
          /\ Stage(b)' >= Stage(b)
          /\ Stage(b)' # Stage(b) =>
                \/ Stage(b)' = Stage(b) + 1
                \/ /\ Stage(b) = 1 /\ Stage(b)' = 3
                   /\ last'.op = "try_unwrap" /\ last'.res = "Ok" /\ last'.blk = b
                   /\ pstate'[b] = "moved"
          /\ Stage(b) = 2 => strong'[b] = 0
          /\ Stage(b) = 3 =>
                /\ Stage(b)' = 3
                /\ strong'[b] = strong[b] /\ weak'[b] = weak[b]
                /\ pstate'[b] = pstate[b] /\ deallocs'[b] = deallocs[b]
          /\ Stage(b) = 1 /\ Stage(b)' = 2 =>
                dtorRuns'[b] = dtorRuns[b] + 1 /\ last'.op \in CcDropOps
       ]_vars

C16_Witness ==
    /\ last.op = "weak_clone" /\ Stage(last.blk) = 2
    /\ pstate[last.blk] = "dropped" /\ weak[last.blk] = 2 /\ wkStack[last.blk] = 2
    /\ \E b \in Blocks : Stage(b) = 3

\* C17: a Weak drop deallocates the block only when strong is already 0, the
\* payload has already been destroyed and the implicit weak has already been
\* released (the handle dropped is the last unit of weak); a Weak drop while
\* a Cc handle is live, or while the destructor of the block's payload or
\* the rest of that Cc drop is in progress, never deallocates.
C17_WeakDropDealloc ==
    [][\A b \in Blocks :
          last'.op \in {"weak_drop", "dtor_weak_drop"} /\ last'.blk = b =>
             /\ last'.res = "freed" <=> alloc'[b] # alloc[b]
             /\ weak'[b] = weak[b] - 1
             /\ alloc'[b] # alloc[b] =>
                   /\ alloc[b] = "alloc" /\ alloc'[b] = "freed"
                   /\ strong[b] = 0 /\ pstate[b] = "dropped" /\ dtorRuns[b] = 1
                   /\ weak[b] = 1 /\ LiveWeak(b) = 1 /\ ~Dropping(b)
             /\ LiveCc(b) > 0 \/ pstate[b] = "dropping" \/ Dropping(b) =>
                   alloc'[b] = alloc[b] /\ alloc[b] = "alloc"
       ]_vars

C17_Witness ==
    /\ last.op = "dtor_weak_drop" /\ last.res = "freed" /\ last.blk # last.to
    /\ alloc[last.blk] = "freed" /\ pstate[last.blk] = "dropped"
    /\ pstate[last.to] = "dropping" /\ alloc[last.to] = "alloc"

\* C18: no leak for acyclic use. Whenever no call is in progress and every
\* Cc and Weak handle to a block that was allocated has been dropped (none
\* is held by the program or owned by any payload, the block's own payload
\* included), the block has been deallocated, once, and its payload has
\* been destroyed, once, or moved out by try_unwrap.
C18_NoLeak ==
    \A b \in Blocks :
        Idle /\ Allocated(b) /\ LiveCc(b) = 0 /\ LiveWeak(b) = 0 =>
            /\ alloc[b] = "freed" /\ deallocs[b] = 1
            /\ \/ pstate[b] = "dropped" /\ dtorRuns[b] = 1
               \/ pstate[b] = "moved" /\ dtorRuns[b] = 0

C18_Witness ==
    /\ Idle /\ TotalHandles = 0
    /\ \A b \in Blocks : alloc[b] = "freed" /\ deallocs[b] = 1
    /\ \E b \in Blocks : pstate[b] = "dropped" /\ weak[b] = 0
    /\ \E b \in Blocks : pstate[b] = "moved"
    /\ last.op = "weak_drop"

\* C19: the counters never underflow: dec_strong and dec_weak subtract one,
\* and no state has strong or weak below zero, so every decrement, in a Cc
\* drop, a Weak drop or the release of the implicit weak, started from a
\* counter >= 1; the block whose counter was lowered had been allocated.
C19_NoUnderflow ==
    /\ \A b \in Blocks : strong[b] >= 0 /\ weak[b] >= 0
    /\ last.op \in CcDropOps \union {"weak_drop", "dtor_weak_drop", "release_implicit"}
          => Allocated(last.blk) /\ strong[last.blk] >= 0 /\ weak[last.blk] >= 0

C19_Witness ==
    /\ last.op = "release_implicit" /\ last.res = "" /\ ~last.cyc
    /\ strong[last.blk] = 0 /\ weak[last.blk] = 1 /\ wkStack[last.blk] = 1

\* C20: Cc::clone adds exactly one to strong and leaves weak and the payload
\* unchanged; Cc::downgrade and Weak::clone add exactly one to weak and
\* leave strong and the payload unchanged; each yields a handle to the same
\* block and allocates nothing, so the payload is not copied and a write
\* through one Cc to an interior-mutable payload changes the one payload
\* that every Cc to the block reads.
C20_HandleCreationFrame ==
    [][\A b \in Blocks :
          /\ last'.op = "clone" /\ last'.blk = b =>
                /\ strong' = [strong EXCEPT ![b] = strong[b] + 1]
                /\ weak' = weak /\ payload' = payload /\ heap' = heap
                /\ last'.to = b /\ LiveCc(b)' = LiveCc(b) + 1
                /\ ccStack' = [ccStack EXCEPT ![b] = ccStack[b] + 1]
                /\ wkStack' = wkStack /\ ccIn' = ccIn /\ wkIn' = wkIn
          /\ last'.op \in {"downgrade", "weak_clone"} /\ last'.blk = b =>
                /\ weak' = [weak EXCEPT ![b] = weak[b] + 1]
                /\ strong' = strong /\ payload' = payload /\ heap' = heap
                /\ last'.to = b /\ LiveWeak(b)' = LiveWeak(b) + 1
                /\ wkStack' = [wkStack EXCEPT ![b] = wkStack[b] + 1]
                /\ ccStack' = ccStack /\ ccIn' = ccIn /\ wkIn' = wkIn
          /\ last'.op = "set" /\ last'.blk = b =>
                /\ ccStack[b] >= 1 /\ data'[b] # data[b]
                /\ \A c \in Blocks \ {b} : data'[c] = data[c]
                /\ counters' = counters /\ handles' = handles /\ heap' = heap
       ]_vars

C20_Witness ==
    /\ last.op = "set" /\ data[last.blk] = 1
    /\ strong[last.blk] = 2 /\ ccStack[last.blk] = 2 /\ weak[last.blk] = 2
    /\ \A b \in Blocks \ {last.blk} : alloc[b] = "unalloc"

\* C21: when make_unique returns, and after the caller has written through
\* the returned reference, the handle is unique: its block is allocated with
\* a live payload, strong_count = 1 and weak_count = 0, the handle is the
\* only Cc to the block and no Weak to it is live; whether the call kept
\* the block or moved the handle to a new one.
C21_UniqueAfterMakeUnique ==
    \A b \in Blocks :
        \/ stack # <<>> /\ Head(stack).pc = "mu_ret" /\ Head(stack).blk = b
        \/ last.op = "mu_write" /\ last.blk = b
        => /\ alloc[b] = "alloc" /\ pstate[b] = "live"
           /\ strong_count(b) = 1 /\ weak_count(b) = 0
           /\ ccStack[b] = 1 /\ LiveCc(b) = 1 /\ LiveWeak(b) = 0

C21_Witness ==
    /\ stack # <<>> /\ Head(stack).pc = "mu_ret"
    /\ last.op = "release_implicit" /\ last.blk # Head(stack).blk
    /\ wkStack[last.blk] = 1 /\ pstate[last.blk] = "dropped"
    /\ strong[Head(stack).blk] = 1 /\ weak[Head(stack).blk] = 1

\* C22: make_unique on a handle that is the only handle to its block (strong
\* = 1, weak = 1) allocates nothing and copies nothing: the handle stays on
\* its block and counters, handles, heap and payloads are unchanged; a
\* make_unique step allocates a block only when another Cc or a Weak to the
\* handle's block is live, and a step that allocates nothing left the handle
\* where it was.
C22_MakeUniqueInPlace ==
    [][\A b \in Blocks : last'.op = "make_unique" /\ last'.blk = b =>
          /\ strong[b] = 1 /\ weak[b] = 1 =>
                /\ last'.res = "same" /\ last'.to = b
                /\ heap' = heap /\ counters' = counters
                /\ handles' = handles /\ payload' = payload
                /\ stack' = <<Frame(b, "mu_ret", Head(stack').val, FALSE)>>
          /\ alloc' # alloc =>
                /\ LiveCc(b) > 1 \/ LiveWeak(b) > 0
                /\ last'.res = "fresh" /\ last'.to # b
          /\ alloc' = alloc => last'.res = "same" /\ last'.to = b
       ]_vars

C22_Witness ==
    /\ last.op = "make_unique" /\ last.res = "same" /\ last.to = last.blk
    /\ strong[last.blk] = 1 /\ weak[last.blk] = 1 /\ ccStack[last.blk] = 1
    /\ \E b \in Blocks : alloc[b] = "unalloc"
    /\ stack # <<>> /\ Head(stack).val # data[last.blk]

\* The payload of block a owns a Cc to block b, directly or through the
\* payloads of at most n blocks.
RECURSIVE Reaches(_, _, _)
Reaches(a, b, n) ==
    /\ n > 0
    /\ \/ ccIn[a][b] > 0
       \/ \E c \in Blocks : ccIn[a][c] > 0 /\ Reaches(c, b, n - 1)

\* Block b is on a strong cycle; the blocks of the cycles through b.
StrongCycle(b) == ccIn[b] # Zero /\ Reaches(b, b, MaxBlocks)
CycleOf(b) ==
    {b} \union {c \in Blocks : Reaches(b, c, MaxBlocks) /\ Reaches(c, b, MaxBlocks)}

\* Every handle to a block of b's cycles is owned by a payload of those blocks.
NoOutside(b) ==
    /\ ccStack[b] = 0 /\ wkStack[b] = 0
    /\ LET C == CycleOf(b) IN
        /\ \A c \in C : ccStack[c] = 0 /\ wkStack[c] = 0
        /\ \A a \in Blocks \ C : \A c \in C : ccIn[a][c] = 0 /\ wkIn[a][c] = 0

C25_NoResurrection ==
    /\ \A b \in Blocks :
          Dropping(b) \/ pstate[b] = "dropping" =>
              /\ strong[b] = 0 /\ LiveCc(b) = 0 /\ dtorRuns[b] = 1
              /\ alloc[b] = "alloc"
    /\ last.op = "dtor_upgrade" /\ Dropping(last.blk) =>
          /\ last.res = "None" /\ strong[last.blk] = 0
          /\ ccStack[last.blk] = 0

C25_Witness ==
    /\ last.op = "dtor_upgrade" /\ last.blk = last.to /\ last.res = "None"
    /\ InDtor /\ Owner = last.blk /\ wkIn[Owner][Owner] = 1
    /\ pstate[Owner] = "dropping" /\ strong[Owner] = 0 /\ weak[Owner] = 2

\* The Cc handles to block b that dec_strong has not yet been written for,
\* and the strong counter's excess over them.
RaceLive(b) == ccStack[b] + InDrop(b)
RaceExcess(b) == strong[b] - RaceLive(b)

\* Context t completes a counter update on block b whose read is out of
\* date: another context wrote the counter after t read it.
StaleWrite(t, b) ==
    /\ stack[t].pc \in {"inc_strong", "dec_strong"} /\ stack[t].blk = b
    /\ stack'[t] = NoCall
    /\ stack[t].val # strong[b]

\* C24: the counter updates are a read followed by a write, so strong stays
\* equal to the number of live Cc handles only as long as no context writes
\* a counter between another context's read and write. In SpecRace the
\* difference between strong and the live Cc handles of an allocated block
\* changes in exactly the steps that write an update whose read is out of
\* date (a lost update), and a payload is destroyed while a Cc handle to its
\* block is live only when such a step has made strong smaller than the
\* number of live Cc handles.
C24_LostUpdate ==
    [][\A b \in Blocks : alloc[b] = "alloc" =>
          /\ RaceExcess(b)' # RaceExcess(b) <=> \E t \in Contexts : StaleWrite(t, b)
          /\ (\E t \in Contexts : StaleWrite(t, b)) <=>
                last'.res = "lost" /\ last'.blk = b
          /\ pstate'[b] = "dropped" /\ RaceLive(b)' > 0 =>
                /\ last'.op = "drop" /\ last'.blk = b
                /\ RaceExcess(b)' < 0
                /\ RaceExcess(b) < 0 \/ last'.res = "lost"
       ]_vars

C24_Witness ==
    /\ \A t \in Contexts : stack[t] = NoCall
    /\ last.op = "drop" /\ last.res = ""
    /\ pstate[last.blk] = "dropped" /\ alloc[last.blk] = "freed"
    /\ strong[last.blk] = 0 /\ ccStack[last.blk] = 1

====
